---- MODULE Spec2Model ----
(***************************************************************************)
(* Model of the VideoStart race timer (React Native 0.72, React 18).       *)
(*                                                                         *)
(*   RaceTimerApp          session state and the start / stop / complete / *)
(*                         cancel handlers                                 *)
(*   StartSequenceOverlay  the async startSequence() run of every mounted  *)
(*                         overlay; a run is never aborted by an unmount   *)
(*   CameraView            the isRecording effect, the frame processor     *)
(*                         (worklet check, then the deferred runOnJS push) *)
(*   TimingMarkers         start / finish markers                          *)
(*   ConfigContext         the settings, their update, load and save       *)
(*                         operations, and the AsyncStorage item they are  *)
(*                         kept in over app runs                           *)
(*   CameraContext         requestPermissions and findBestFormat, as       *)
(*                         initializeApp calls them                        *)
(*                                                                         *)
(* A press handler is one action together with the render it causes and    *)
(* the effects of that render: React 18 flushes the effects of a discrete  *)
(* event synchronously, before anything else runs on the JS thread.        *)
(* Timers, promise completions, frame worklets and runOnJS callbacks are   *)
(* separate actions that interleave freely with the handlers.              *)
(***************************************************************************)
EXTENDS Integers, Sequences, FiniteSets, TLC

\* ------------------------------------------------------------------ bounds
MaxPresses == 3     \* accepted presses of Start, Stop and Cancel per run
MaxTime    == 2     \* last reading of the clock
MaxFrames  == 2     \* frames that pass the worklet's test per run
MaxFormats == 2     \* formats of the camera device
RandSteps  == 4     \* Math.random() is one of 0/RandSteps .. (RandSteps-1)/RandSteps
MaxConfigOps == 2   \* calls of the configuration's update functions
MaxRuns    == 2     \* app runs over one storage

\* overlays a run can mount: every start but the last is followed by a cancel
MaxSessions == (MaxPresses + 1) \div 2

\* ------------------------------------------------------- program constants
NULL          == 0  \* an unset number | null field (falsy, as in the code)
CountdownFrom == 3  \* for (let i = 3; i >= 1; i--)
FpsWindow     == 30 \* frames the measured rate is computed over

PrePhases == {"countdown", "go_to_start", "in_position", "set"}

VARIABLES
    now,                 \* performance.now()
    cameraReady,         \* camera.camera.current && camera.device
    device,              \* the back camera found by initializeApp
    targetFps,           \* config.videoQuality.fps
    format,              \* CameraContext state format
    appInit,             \* initializeApp: camera | microphone | denied |
                         \* pending | done
    isActive,            \* CameraContext state
    hasPermission,       \* CameraContext state
    cameraPermission,    \* what Camera.requestCameraPermission() resolved to
    microphonePermission,\* what Camera.requestMicrophonePermission() resolved to
    startSequenceConfig, \* ConfigContext state
    configLoad,          \* loadConfig of the provider's mount: pending | done
    configOps,           \* calls of the update functions so far
    videoQuality,        \* ConfigContext state
    autoSave,            \* ConfigContext state
    storage,             \* AsyncStorage item 'videostart_config': << >> or << text >>
    storageCalls,        \* AsyncStorage calls issued and not yet served
    loaded,              \* what the getItem of loadConfig was served
    launched,            \* the item this app run found, and configOps then
    lastRun,             \* the settings the previous app run had saved
    runs,                \* app runs so far
    delayLog,            \* the delay() calls of startSequence runs, per run
    recordingState,      \* RaceTimerApp state: idle | recording | finished
    isSequenceActive,    \* RaceTimerApp state; mounts the overlay
    startTime,           \* timingMarkers.startTime
    finishTime,          \* timingMarkers.finishTime
    recordingStartTime,  \* CameraView ref recordingStartTime.current
    frameTimestamps,     \* CameraView ref frameTimestamps.current
    frameCount,          \* CameraView state
    actualFps,           \* CameraView state
    pending,             \* runOnJS callbacks scheduled by the worklet
    framesSeen,          \* frames that passed the worklet's test so far
    presses,             \* accepted presses so far
    nseq,                \* overlays mounted so far; the mounted one is nseq
    seqs,                \* the startSequence() run of every overlay
    startCalls,          \* camera.startRecording calls in this session
    stopCalls,           \* camera.stopRecording calls in this session
    setStartCalls,       \* timingMarkers.setStartTime calls in this session
    beeps,               \* playAudio('start_beep') calls in this session
    setFinishCalls,      \* timingMarkers.setFinishTime calls in this session
    camIsRecording,      \* CameraContext state isRecording
    recs,                \* the recorder call of every session, and its callbacks
    timingData           \* the record last built by handleRecordingFinished

vars == << now, cameraReady, device, targetFps, format, appInit, isActive,
           hasPermission, cameraPermission, microphonePermission,
           startSequenceConfig, configLoad, configOps, delayLog,
           videoQuality, autoSave, storage, storageCalls, loaded,
           launched, lastRun, runs, recordingState, isSequenceActive,
           startTime, finishTime, recordingStartTime, frameTimestamps,
           frameCount, actualFps, pending, framesSeen, presses, nseq, seqs,
           startCalls, stopCalls, setStartCalls, beeps, setFinishCalls,
           camIsRecording, recs, timingData >>

appVars    == << recordingState, isSequenceActive >>
markerVars == << startTime, finishTime >>
cameraVars == << recordingStartTime, frameTimestamps, frameCount, actualFps,
                 startCalls, stopCalls >>
recVars    == << camIsRecording, recs, timingData >>
callVars   == << setStartCalls, beeps, setFinishCalls >>
storeVars  == << videoQuality, autoSave, storage, storageCalls, loaded,
                 launched, lastRun, runs >>
cfgVars    == << startSequenceConfig, configLoad, configOps, delayLog,
                 storeVars >>
permVars   == << isActive, hasPermission, cameraPermission,
                 microphonePermission >>
envVars    == << cameraReady, cfgVars, device, targetFps, format, appInit,
                 permVars >>

\* ------------------------------------------------------------ ConfigContext
defaultStartSequenceConfig ==
    [goToStartDuration |-> 5, inPositionMin |-> 1, inPositionMax |-> 3,
     setMin |-> 1, setMax |-> 3, audioEnabled |-> TRUE]

\* config.startSequenceConfig.audioEnabled
audioEnabled == startSequenceConfig.audioEnabled

ConfigFields == DOMAIN defaultStartSequenceConfig

\* { ...prev, ...config }
MergeConfig(prev, config) ==
    [f \in ConfigFields |->
        IF f \in DOMAIN config THEN config[f] ELSE prev[f]]

\* the number NaN, below every duration
NaN == 0 - 1

\* Partial<StartSequenceConfig>: nothing, or a value for one field
PartialConfigs ==
    {<< >>} \cup
    {[f \in {"audioEnabled"} |-> b] : b \in BOOLEAN} \cup
    {[f \in {g} |-> 4] : g \in ConfigFields \ {"audioEnabled"}} \cup
    {[f \in {"goToStartDuration"} |-> NaN]}

defaultVideoQuality ==
    [width |-> 1920, height |-> 1080, fps |-> 240,
     displayName |-> "1080p @ 240fps"]

\* the qualities a settings screen offers
VideoQualities ==
    {defaultVideoQuality,
     [width |-> 1280, height |-> 720, fps |-> 120,
      displayName |-> "720p @ 120fps"]}

\* JSON.stringify of a number: NaN is written as null
JsonNumber(v) == IF v = NaN THEN NULL ELSE v

\* JSON.stringify({ startSequenceConfig, videoQuality, autoSave }); the text
\* is held as the object JSON.parse makes of it
Stringify(ssc, vq, as) ==
    [startSequenceConfig |->
         [f \in ConfigFields |->
             IF f = "audioEnabled" THEN ssc[f] ELSE JsonNumber(ssc[f])],
     videoQuality |-> vq,
     autoSave |-> as]

\* AsyncStorage.getItem('videostart_config'), as issued
GetItemCall == [op |-> "getItem", value |-> << >>]

\* AsyncStorage.setItem('videostart_config', text), as issued
SetItemCall(text) == [op |-> "setItem", value |-> << text >>]

\* saveConfig() of the render with this state, up to its await
SaveConfig(ssc, vq, as) == SetItemCall(Stringify(ssc, vq, as))
boundVars  == << framesSeen, presses >>

\* ------------------------------------------------------ StartSequenceOverlay
Unmounted ==
    [pc |-> "unmounted", phase |-> "countdown", countdown |-> CountdownFrom,
     startTime |-> NULL, audio |-> FALSE, cancelled |-> "no",
     cancelledIn |-> "", ops |-> << >>, cues |-> << >>,
     cfg |-> defaultStartSequenceConfig, wait |-> << 0, 0 >>]

\* useState initial values and the first iteration of the countdown loop;
\* cfg is config.startSequenceConfig of the render whose effect calls
\* startSequence
Mounted(cfg) ==
    [pc |-> "countdown", phase |-> "countdown", countdown |-> CountdownFrom,
     startTime |-> NULL, audio |-> cfg.audioEnabled, cancelled |-> "no",
     cancelledIn |-> "", ops |-> << >>, cues |-> << >>,
     cfg |-> cfg, wait |-> << 1000, 1000 >>]

\* a run that reads the provider's current configuration
SequenceConfig_live(q) == startSequenceConfig

\* the configuration a run reads: the config of its closure
SequenceConfig(q) == q.cfg

\* the least and the greatest wait of a cue phase, in ms
PhaseWait(q, p) ==
    LET c == SequenceConfig(q)
    IN  CASE p = "go_to_start" ->
               << c.goToStartDuration * 1000, c.goToStartDuration * 1000 >>
          [] p = "in_position" ->
               << c.inPositionMin * 1000, c.inPositionMax * 1000 >>
          [] p = "set" -> << c.setMin * 1000, c.setMax * 1000 >>

\* entering a cue phase: setPhase, then the cue when audio is enabled,
\* else straight to the phase's wait
\* a cue phase that plays its cue whatever audioEnabled says
EnterPhase_always(q, p) ==
    [q EXCEPT !.phase = p, !.pc = "audio_" \o p, !.cues = Append(@, p)]

EnterPhase(q, p) ==
    [q EXCEPT !.phase = p,
              !.pc = IF q.audio THEN "audio_" \o p ELSE "delay_" \o p,
              !.cues = IF q.audio THEN Append(@, p) ELSE @,
              !.wait = IF q.audio THEN @ ELSE PhaseWait(q, p)]

\* the calls of the "START!" step up to its first await, in the order the
\* code makes them; the recorder's begin call is not among them (it is made
\* by the isRecording effect when the start request is accepted)
StartStepOps(audio) ==
    << "setPhase", "setPhaseText", "clock" >>
        \o (IF audio THEN << "beep" >> ELSE << "animateScale" >>)

\* "START!": setPhase('start'), the clock read, then the beep
EnterStart(q, t) ==
    [q EXCEPT !.phase = "start", !.startTime = t,
              !.ops = StartStepOps(q.audio),
              !.cues = IF q.audio THEN Append(@, "start_beep") ELSE @,
              !.pc = IF q.audio THEN "audio_start_beep" ELSE "complete_timer"]

\* ------------------------------------------------------------- TimingMarkers
SetStartTime(cur, t) == IF cur = NULL THEN t ELSE cur
SetFinishTime(cur, t) == IF cur = NULL THEN t ELSE cur

\* --------------------------------------------------- recorder (CameraView)
\* a session whose effect has made no camera.startRecording call
NoRecording ==
    [start |-> "none", stop |-> "none", cb |-> "none", fc |-> 0, fps |-> 0]

\* camera.startRecording({onRecordingFinished, onRecordingError, ...}) has
\* been called and is awaited; fc and fps are the frameCount and actualFps of
\* the render whose handleRecordingFinished was handed over
Recording(fc, fps) ==
    [start |-> "pending", stop |-> "none", cb |-> "armed", fc |-> fc,
     fps |-> fps]

\* camera.stopRecording() has been called and is awaited; a recording that
\* was begun will report onRecordingFinished
Stopping(r) ==
    [r EXCEPT !.stop = "pending",
              !.cb = IF r.cb = "armed" THEN "owed" ELSE r.cb]

NoTimingData == [session |-> 0]

\* ------------------------------------------- CameraContext.findBestFormat
\* format undefined: no record of a device has a zero maxFps
NoFormat == [videoWidth |-> 0, videoHeight |-> 0, maxFps |-> 0]

F1080p240 == [videoWidth |-> 1920, videoHeight |-> 1080, maxFps |-> 240]
F1080p120 == [videoWidth |-> 1920, videoHeight |-> 1080, maxFps |-> 120]
F720p240  == [videoWidth |-> 1280, videoHeight |-> 720, maxFps |-> 240]
F720p120  == [videoWidth |-> 1280, videoHeight |-> 720, maxFps |-> 120]
F4Kp60    == [videoWidth |-> 3840, videoHeight |-> 2160, maxFps |-> 60]
\* a format that reports no size
FNoSize   == [videoWidth |-> 0, videoHeight |-> 0, maxFps |-> 240]

DeviceFormats ==
    {F1080p240, F1080p120, F720p240, F720p120, F4Kp60, FNoSize}

\* camera devices: device.formats missing, or a list of up to MaxFormats
Devices ==
    {[hasFormats |-> FALSE, formats |-> << >>]} \cup
    {[hasFormats |-> TRUE, formats |-> fs] :
        fs \in UNION {[1..n -> DeviceFormats] : n \in 0..MaxFormats}}

\* the device of a run that does not look at formats
DefaultDevice == [hasFormats |-> TRUE, formats |-> << F1080p240 >>]

\* the filter: a width, a height, and maxFps >= targetFps
Qualifies(f, fps) ==
    f.videoWidth # 0 /\ f.videoHeight # 0 /\ f.maxFps >= fps

Pixels(f) == f.videoWidth * f.videoHeight

\* a comparator that puts the higher fps first, then more pixels
Precedes_fpsFirst(a, b) ==
    \/ a.maxFps > b.maxFps
    \/ a.maxFps = b.maxFps /\ Pixels(a) > Pixels(b)

\* the comparator is negative for (a, b): more pixels, then higher fps
Precedes(a, b) ==
    \/ Pixels(a) > Pixels(b)
    \/ Pixels(a) = Pixels(b) /\ a.maxFps > b.maxFps

\* f put into a sorted list behind everything it does not precede
InsertFormat(f, sorted) ==
    LET before == {i \in 1..Len(sorted) : ~Precedes(f, sorted[i])}
        k == Cardinality(before)
    IN  SubSeq(sorted, 1, k) \o << f >> \o SubSeq(sorted, k + 1, Len(sorted))

RECURSIVE SortFormats(_)
\* Array.prototype.sort with the comparator: a stable sort
SortFormats(fs) ==
    IF fs = << >> THEN << >>
    ELSE InsertFormat(fs[Len(fs)], SortFormats(SubSeq(fs, 1, Len(fs) - 1)))

Is1080p240(f) ==
    f.videoWidth = 1920 /\ f.videoHeight = 1080 /\ f.maxFps >= 240

FindBestFormat(dev, fps) ==
    IF ~dev.hasFormats THEN NoFormat
    ELSE LET Wanted(f) == Qualifies(f, fps)
             sortedFormats == SortFormats(SelectSeq(dev.formats, Wanted))
             ideal1080p240 == SelectSeq(sortedFormats, Is1080p240)
         IN  IF ideal1080p240 # << >> THEN ideal1080p240[1]
             ELSE IF sortedFormats # << >> THEN sortedFormats[1]
             ELSE NoFormat

\* the permission statuses of the camera library, and a request that throws
PermissionOutcomes ==
    {"authorized", "denied", "restricted", "not-determined", "throws"}

\* const granted = cameraPermission === 'authorized' && ...
Granted_cameraOnly(cam, mic) == cam = "authorized"

Granted(cam, mic) == cam = "authorized" /\ mic = "authorized"

permFrame == << now, cameraReady, cfgVars, device, targetFps, format,
                isActive, boundVars, appVars, markerVars, cameraVars, pending,
                nseq, seqs, callVars, recVars >>

\* requestPermissions: the awaited Camera.requestCameraPermission() settles;
\* when it throws, the catch sets hasPermission to false and initializeApp,
\* told false, shows its alert and returns
RequestCameraPermissionSettled ==
    /\ appInit = "camera"
    /\ \E status \in PermissionOutcomes :
          /\ cameraPermission' = status
          /\ IF status = "throws"
             THEN /\ hasPermission' = FALSE
                  /\ appInit' = "denied"
             ELSE /\ appInit' = "microphone"
                  /\ UNCHANGED hasPermission
    /\ UNCHANGED << microphonePermission, permFrame >>

\* requestPermissions: the awaited Camera.requestMicrophonePermission()
\* settles; setHasPermission(granted), or the catch; initializeApp goes on
\* when told true, else shows its alert and returns
RequestMicrophonePermissionSettled ==
    /\ appInit = "microphone"
    /\ \E status \in PermissionOutcomes :
          /\ microphonePermission' = status
          /\ LET granted == /\ status # "throws"
                            /\ Granted(cameraPermission, status)
             IN  /\ hasPermission' = granted
                 /\ appInit' = IF granted THEN "pending" ELSE "denied"
    /\ UNCHANGED << cameraPermission, permFrame >>

\* initializeApp after requestPermissions returned true, with a back
\* camera: setDevice, findBestFormat, setFormat when a format was found,
\* setIsActive(true)
InitializeApp ==
    /\ appInit = "pending"
    /\ appInit' = "done"
    /\ format' = LET bestFormat == FindBestFormat(device, targetFps)
                 IN  IF bestFormat # NoFormat THEN bestFormat ELSE format
    /\ isActive' = TRUE
    /\ UNCHANGED << now, cameraReady, cfgVars, device, targetFps,
                    hasPermission, cameraPermission, microphonePermission,
                    boundVars, appVars, markerVars, cameraVars, pending, nseq,
                    seqs, callVars, recVars >>

\* ------------------------------------------------- ConfigContext operations
\* everything but the configuration
notCfgVars == << now, cameraReady, device, targetFps, format, appInit,
                 permVars,
                 boundVars, appVars, markerVars, cameraVars, pending, nseq,
                 seqs, callVars, recVars >>

\* updateStartSequenceConfig(config), called by a settings screen, with the
\* render it causes and the saveConfig effect of that render
UpdateStartSequenceConfig ==
    /\ configOps < MaxConfigOps
    /\ configOps' = configOps + 1
    /\ \E config \in PartialConfigs :
          startSequenceConfig' = MergeConfig(startSequenceConfig, config)
    /\ storageCalls' =
          Append(storageCalls,
                 SaveConfig(startSequenceConfig', videoQuality, autoSave))
    /\ UNCHANGED << configLoad, delayLog, videoQuality, autoSave, storage,
                    loaded, launched, lastRun, runs, notCfgVars >>

\* updateVideoQuality(quality), with the saveConfig effect of its render
UpdateVideoQuality ==
    /\ configOps < MaxConfigOps
    /\ configOps' = configOps + 1
    /\ \E quality \in VideoQualities : videoQuality' = quality
    /\ storageCalls' =
          Append(storageCalls,
                 SaveConfig(startSequenceConfig, videoQuality', autoSave))
    /\ UNCHANGED << startSequenceConfig, configLoad, delayLog, autoSave,
                    storage, loaded, launched, lastRun, runs,
                    notCfgVars >>

\* setAutoSave(enabled); a boolean state set to the value it has causes no
\* render and no effect
SetAutoSave ==
    /\ configOps < MaxConfigOps
    /\ configOps' = configOps + 1
    /\ \E enabled \in BOOLEAN : autoSave' = enabled
    /\ storageCalls' =
          IF autoSave' # autoSave
          THEN Append(storageCalls,
                      SaveConfig(startSequenceConfig, videoQuality, autoSave'))
          ELSE storageCalls
    /\ UNCHANGED << startSequenceConfig, configLoad, delayLog, videoQuality,
                    storage, loaded, launched, lastRun, runs,
                    notCfgVars >>

\* s without its i-th element
RemoveAt(s, i) == SubSeq(s, 1, i - 1) \o SubSeq(s, i + 1, Len(s))

\* the storage serves one of the calls it was handed: a getItem reads the
\* item, a setItem replaces it.  The calls of loadConfig and saveConfig are
\* issued without waiting for one another, and nothing in the program fixes
\* the order they are served in.
StorageServe ==
    /\ \E i \in 1..Len(storageCalls) :
          /\ storageCalls' = RemoveAt(storageCalls, i)
          /\ IF storageCalls[i].op = "getItem"
             THEN /\ loaded' = storage
                  /\ configLoad' = "served"
                  /\ UNCHANGED storage
             ELSE /\ storage' = storageCalls[i].value
                  /\ UNCHANGED << loaded, configLoad >>
    /\ UNCHANGED << startSequenceConfig, configOps, delayLog, videoQuality,
                    autoSave, launched, lastRun, runs, notCfgVars >>

\* { ...prev, ...parsed.videoQuality }: the stored quality has every field
MergeVideoQuality(prev, stored) == stored

\* the awaited getItem of loadConfig resolves: nothing stored, or the parsed
\* item is merged over the state (one render for the three setters) and the
\* saveConfig effect of that render runs
LoadConfigSettled ==
    /\ configLoad = "served"
    /\ configLoad' = "done"
    /\ IF loaded = << >>
       THEN UNCHANGED << startSequenceConfig, videoQuality, autoSave,
                         storageCalls >>
       ELSE LET parsed == loaded[1]
            IN  /\ startSequenceConfig' =
                      MergeConfig(startSequenceConfig,
                                  parsed.startSequenceConfig)
                /\ videoQuality' =
                      MergeVideoQuality(videoQuality, parsed.videoQuality)
                /\ autoSave' = parsed.autoSave
                /\ storageCalls' =
                      Append(storageCalls,
                             SaveConfig(startSequenceConfig', videoQuality',
                                        autoSave'))
    /\ UNCHANGED << configOps, delayLog, storage, loaded, launched,
                    lastRun, runs, notCfgVars >>

\* the state of a mounted ConfigProvider
Settings == << startSequenceConfig, videoQuality, autoSave >>

\* every update of this app run has had its save served, and so has the load
AllSaved ==
    /\ configLoad = "done"
    /\ storageCalls = << >>

\* the app is closed and opened again: the provider mounts with the
\* defaults, and its two effects call loadConfig and saveConfig; calls the
\* closed app had not been served are lost
Relaunch ==
    /\ runs < MaxRuns
    /\ runs' = runs + 1
    /\ lastRun' = IF AllSaved /\ configOps > launched.ops
                  THEN << Settings >> ELSE << >>
    /\ launched' = [item |-> storage, ops |-> configOps]
    /\ startSequenceConfig' = defaultStartSequenceConfig
    /\ videoQuality' = defaultVideoQuality
    /\ autoSave' = TRUE
    /\ configLoad' = "pending"
    /\ loaded' = << >>
    /\ storageCalls' =
          << GetItemCall,
             SaveConfig(defaultStartSequenceConfig, defaultVideoQuality,
                        TRUE) >>
    /\ UNCHANGED << configOps, delayLog, storage, notCfgVars >>

\* --------------------------------------------- the waits of startSequence
RandomOutcomes == 0..(RandSteps - 1)

\* randomDelay without its "+ min"
RandomDelay_nomin(min, max, r) == (r * (max - min) * 1000) \div RandSteps

\* randomDelay(min, max) for Math.random() = r / RandSteps, in ms
RandomDelay(min, max, r) ==
    (r * (max - min) * 1000) \div RandSteps + min * 1000

\* the arguments of the delay() calls a run of startSequence makes before
\* setPhase('start'), for the configuration c of its closure and the two
\* outcomes of Math.random()
SequenceDelays(c, r1, r2) ==
    [cfg        |-> c,
     countdown  |-> [i \in 1..CountdownFrom |-> 1000],
     goToStart  |-> c.goToStartDuration * 1000,
     inPosition |-> RandomDelay(c.inPositionMin, c.inPositionMax, r1),
     set        |-> RandomDelay(c.setMin, c.setMax, r2)]

\* one run of startSequence up to the start phase, as the waits it makes
StartSequenceDelays ==
    /\ Len(delayLog) < MaxSessions
    /\ \E r1, r2 \in RandomOutcomes :
          delayLog' =
              Append(delayLog, SequenceDelays(startSequenceConfig, r1, r2))
    /\ UNCHANGED << startSequenceConfig, configLoad, configOps, storeVars,
                    notCfgVars >>

\* ---------------------------------------------------------------------- Init
\* the session before the first start request
SessionInit ==
    /\ now = 1
    /\ cameraReady \in BOOLEAN
    /\ recordingState = "idle"
    /\ isSequenceActive = FALSE
    /\ startTime = NULL
    /\ finishTime = NULL
    /\ recordingStartTime = NULL
    /\ frameTimestamps = << >>
    /\ frameCount = 0
    /\ actualFps = 0
    /\ pending = << >>
    /\ framesSeen = 0
    /\ presses = 0
    /\ nseq = 0
    /\ seqs = [s \in 1..MaxSessions |-> Unmounted]
    /\ startCalls = 0
    /\ stopCalls = 0
    /\ setStartCalls = 0
    /\ beeps = 0
    /\ setFinishCalls = 0
    /\ camIsRecording = FALSE
    /\ recs = [s \in 1..MaxSessions |-> NoRecording]
    /\ timingData = NoTimingData

\* the storage of a first app run once loadConfig and the saves have
\* settled: the item is the text of the settings
StoreSettled ==
    /\ videoQuality = defaultVideoQuality
    /\ autoSave = TRUE
    /\ storage = << Stringify(startSequenceConfig, videoQuality, autoSave) >>
    /\ storageCalls = << >>
    /\ loaded = << >>
    /\ launched = [item |-> << >>, ops |-> 0]
    /\ lastRun = << >>
    /\ runs = 1

\* the item an app run can find: none on a first run, or the text an
\* earlier run has written
StoredItems ==
    {<< >>,
     << Stringify(defaultStartSequenceConfig, defaultVideoQuality, TRUE) >>,
     << Stringify([defaultStartSequenceConfig EXCEPT !.audioEnabled = FALSE,
                                                      !.inPositionMin = 2],
                  CHOOSE q \in VideoQualities : q # defaultVideoQuality,
                  FALSE) >>}

\* the provider right after its mount: the defaults, and the calls of its
\* two effects, loadConfig() and saveConfig()
StoreMounted ==
    /\ videoQuality = defaultVideoQuality
    /\ autoSave = TRUE
    /\ storage \in StoredItems
    /\ storageCalls =
          << GetItemCall,
             SaveConfig(defaultStartSequenceConfig, defaultVideoQuality,
                        TRUE) >>
    /\ loaded = << >>
    /\ launched = [item |-> storage, ops |-> 0]
    /\ lastRun = << >>
    /\ runs = 1

\* the provider once the storage has served the calls of its two effects,
\* the getItem first, with loadConfig still waiting for its result
StoreServed ==
    /\ videoQuality = defaultVideoQuality
    /\ autoSave = TRUE
    /\ loaded \in StoredItems
    /\ storage =
          << Stringify(defaultStartSequenceConfig, defaultVideoQuality,
                       TRUE) >>
    /\ storageCalls = << >>
    /\ launched = [item |-> loaded, ops |-> 0]
    /\ lastRun = << >>
    /\ runs = 1

\* the configuration after loadConfig, audio cues on or off
ConfigInit ==
    /\ startSequenceConfig \in
          {[defaultStartSequenceConfig EXCEPT !.audioEnabled = b] :
              b \in BOOLEAN}
    /\ configLoad = "done"
    /\ configOps = 0
    /\ delayLog = << >>
    /\ StoreSettled

\* both permissions granted, requestPermissions having returned true
PermissionsGranted ==
    /\ hasPermission = TRUE
    /\ cameraPermission = "authorized"
    /\ microphonePermission = "authorized"

\* the camera after initializeApp
CameraInit ==
    /\ device = DefaultDevice
    /\ targetFps = 240
    /\ format = FindBestFormat(DefaultDevice, 240)
    /\ appInit = "done"
    /\ isActive = TRUE
    /\ PermissionsGranted

\* the app after initializeApp and loadConfig, its camera found or not
Init ==
    /\ SessionInit
    /\ ConfigInit
    /\ CameraInit

\* the provider after its mount, loadConfig about to continue
InitConfig ==
    /\ SessionInit
    /\ CameraInit
    /\ startSequenceConfig = defaultStartSequenceConfig
    /\ configLoad = "served"
    /\ configOps = 0
    /\ delayLog = << >>
    /\ StoreServed

\* the provider right after its mount: the defaults, loadConfig and
\* saveConfig called
InitStore ==
    /\ SessionInit
    /\ CameraInit
    /\ startSequenceConfig = defaultStartSequenceConfig
    /\ configLoad = "pending"
    /\ configOps = 0
    /\ delayLog = << >>
    /\ StoreMounted

\* configurations a sequence can be started with
DelayConfigs ==
    [goToStartDuration : {0, 5}, inPositionMin : {1, 2},
     inPositionMax : {1, 3}, setMin : {1, 2}, setMax : {1, 3},
     audioEnabled : BOOLEAN]

InitDelays ==
    /\ SessionInit
    /\ CameraInit
    /\ startSequenceConfig \in DelayConfigs
    /\ configLoad = "done"
    /\ configOps = 0
    /\ delayLog = << >>
    /\ StoreSettled

\* the app before initializeApp chooses the format
InitFormat ==
    /\ SessionInit
    /\ ConfigInit
    /\ device \in Devices
    /\ targetFps \in {60, 120, 240}
    /\ format = NoFormat
    /\ appInit = "pending"
    /\ isActive = FALSE
    /\ PermissionsGranted

\* the app at the start of initializeApp, nothing asked yet
InitPerm ==
    /\ SessionInit
    /\ ConfigInit
    /\ device \in Devices
    /\ targetFps \in {60, 120, 240}
    /\ format = NoFormat
    /\ appInit = "camera"
    /\ isActive = FALSE
    /\ hasPermission = FALSE
    /\ cameraPermission = "not-determined"
    /\ microphonePermission = "not-determined"

\* ------------------------------------------------------------------ CameraView
\* startRecording(): the recorder's begin call, skipped without a camera
StartRecordingCalls(ready) == IF ready THEN 1 ELSE 0

\* stopRecording(): the recorder's stop call, skipped without a camera
StopRecordingCalls(ready) == IF ready THEN 1 ELSE 0

\* the effect without its frameTimestamps.current = [] line
ResetFrames_kept(ft) == ft

\* frameTimestamps.current = [] of the isRecording effect
ResetFrames(ft) == << >>

\* the worklet's test: isRecording && recordingStartTime.current
WorkletAccepts(isRecording, rst) == isRecording /\ rst # NULL

\* the value the worklet hands to runOnJS
ElapsedMs(currentTime, rst) == currentTime - rst

\* useEffect(..., [isRecording]) for isRecording = true
EffectRecordingOn ==
    /\ recordingStartTime' = now
    /\ frameTimestamps' = ResetFrames(frameTimestamps)
    /\ frameCount' = 0
    /\ actualFps' = 0
    /\ startCalls' = StartRecordingCalls(cameraReady)
    /\ stopCalls' = 0
    /\ recs' = [recs EXCEPT ![nseq + 1] =
                  IF StartRecordingCalls(cameraReady) = 1
                  THEN Recording(frameCount, actualFps)
                  ELSE NoRecording]

\* useEffect(..., [isRecording]) for isRecording = false
EffectRecordingOff ==
    IF recordingStartTime # NULL
    THEN /\ stopCalls' = stopCalls + StopRecordingCalls(cameraReady)
         /\ recs' = [recs EXCEPT ![nseq] =
                       IF StopRecordingCalls(cameraReady) = 1
                       THEN Stopping(@) ELSE @]
         /\ recordingStartTime' = NULL
         /\ UNCHANGED << frameTimestamps, frameCount, actualFps, startCalls >>
    ELSE UNCHANGED << cameraVars, recs >>

\* the frame processor worklet, on the frame processor thread; a frame that
\* fails the test is dropped and changes nothing.  Whether the camera still
\* delivers frames while isActive={camera.isActive && !isRecording} is false
\* is the library's decision: a frame may arrive whenever the Camera is
\* mounted.
FrameWorklet ==
    /\ cameraReady
    /\ WorkletAccepts(recordingState = "recording", recordingStartTime)
    /\ framesSeen < MaxFrames
    /\ framesSeen' = framesSeen + 1
    /\ pending' = Append(pending, ElapsedMs(now, recordingStartTime))
    /\ UNCHANGED << now, envVars, appVars, markerVars, cameraVars, presses,
                    nseq, seqs, callVars, recVars >>

\* const measuredFps = 29000 / timeDiff over the last FpsWindow timestamps;
\* a zero timeDiff gives Infinity, here a value above every quotient
MeasuredFps(ft) ==
    LET recent30 == SubSeq(ft, Len(ft) - FpsWindow + 1, Len(ft))
        timeDiff == recent30[FpsWindow] - recent30[1]
    IN  IF timeDiff = 0 THEN 29000 + 1 ELSE 29000 \div timeDiff

\* the runOnJS callback, on the JS thread
FramePush ==
    /\ pending # << >>
    /\ frameTimestamps' = Append(frameTimestamps, Head(pending))
    /\ frameCount' = frameCount + 1
    /\ actualFps' = IF Len(frameTimestamps') >= FpsWindow
                    THEN MeasuredFps(frameTimestamps')
                    ELSE actualFps
    /\ pending' = Tail(pending)
    /\ UNCHANGED << now, envVars, boundVars, appVars, markerVars,
                    recordingStartTime, startCalls, stopCalls, nseq, seqs,
                    callVars, recVars >>

\* ---------------------------------------------------------------- RaceTimerApp
\* ControlPanel: the Start and Stop buttons are disabled unless these hold
\* a Start button that ignores recordingState
canStart_anyState == ~isSequenceActive

canStart == recordingState = "idle" /\ ~isSequenceActive
canStop  == recordingState = "recording"

\* the early return of handleStartSequence
StartRejected(active, state) == active \/ state = "recording"

\* handleStopRecording without its early return
StopRejected_never(state) == FALSE

\* the early return of handleStopRecording
StopRejected(state) == state # "recording"

\* the phase of a run when the Cancel button is pressed
CancelKind(q) == IF q.phase \in PrePhases THEN "pre" ELSE "post"

HandleStartSequence ==
    /\ canStart
    /\ ~StartRejected(isSequenceActive, recordingState)
    /\ presses < MaxPresses
    /\ presses' = presses + 1
    /\ isSequenceActive' = TRUE
    /\ recordingState' = "recording"
    /\ EffectRecordingOn
    /\ nseq' = nseq + 1
    /\ seqs' = [seqs EXCEPT ![nseq + 1] = Mounted(startSequenceConfig)]
    /\ setStartCalls' = 0
    /\ beeps' = 0
    /\ setFinishCalls' = 0
    /\ UNCHANGED << now, envVars, framesSeen, markerVars, pending,
                    camIsRecording, timingData >>

\* handleStopRecording past its early return, with the effect it causes
StopRecordingBody ==
    /\ presses < MaxPresses
    /\ presses' = presses + 1
    /\ recordingState' = "finished"
    /\ isSequenceActive' = FALSE
    /\ finishTime' = SetFinishTime(finishTime, now)
    /\ setFinishCalls' = setFinishCalls + 1
    /\ IF recordingState = "recording" THEN EffectRecordingOff
                                       ELSE UNCHANGED << cameraVars, recs >>
    /\ UNCHANGED << now, envVars, framesSeen, startTime, pending, nseq, seqs,
                    setStartCalls, beeps, camIsRecording, timingData >>

\* a press of the enabled Stop button
HandleStopRecording ==
    /\ canStop
    /\ ~StopRejected(recordingState)
    /\ StopRecordingBody

\* handleStopRecording called in any state, the button's disabled prop set
\* aside: the early return leaves everything as it is
StopRecordingCall ==
    IF StopRejected(recordingState)
    THEN UNCHANGED vars
    ELSE StopRecordingBody

\* a cancel handler that unmounts the overlay and leaves recordingState
HandleSequenceCancelled_keepsState ==
    /\ isSequenceActive
    /\ presses < MaxPresses
    /\ presses' = presses + 1
    /\ isSequenceActive' = FALSE
    /\ seqs' = [seqs EXCEPT ![nseq].cancelled = CancelKind(seqs[nseq]),
                             ![nseq].cancelledIn = seqs[nseq].phase]
    /\ UNCHANGED << now, envVars, framesSeen, markerVars, pending, nseq,
                    callVars, camIsRecording, timingData, recordingState,
                    cameraVars, recs >>

\* the overlay's Cancel button, there while the overlay is mounted
HandleSequenceCancelled ==
    /\ isSequenceActive
    /\ presses < MaxPresses
    /\ presses' = presses + 1
    /\ isSequenceActive' = FALSE
    /\ recordingState' = "idle"
    /\ IF recordingState = "recording" THEN EffectRecordingOff
                                       ELSE UNCHANGED << cameraVars, recs >>
    /\ seqs' = [seqs EXCEPT ![nseq].cancelled = CancelKind(seqs[nseq]),
                             ![nseq].cancelledIn = seqs[nseq].phase]
    /\ UNCHANGED << now, envVars, framesSeen, markerVars, pending, nseq,
                    callVars, camIsRecording, timingData >>

\* handleSequenceComplete, the overlay's onComplete
HandleSequenceComplete(t) ==
    /\ startTime' = SetStartTime(startTime, t)
    /\ setStartCalls' = setStartCalls + 1
    /\ UNCHANGED finishTime

\* ------------------------------------------------- startSequence(), run s
seqFrame == << now, envVars, boundVars, appVars, markerVars, cameraVars,
               pending, nseq, callVars, recVars >>

\* a delay(1000) of the countdown loop fires
CountdownTimer(s) ==
    /\ seqs[s].pc = "countdown"
    /\ seqs' = [seqs EXCEPT ![s] =
                  IF seqs[s].countdown > 1
                  THEN [@ EXCEPT !.countdown = @ - 1]
                  ELSE EnterPhase(@, "go_to_start")]
    /\ UNCHANGED seqFrame

\* the awaited playAudio of a cue phase resolves
AudioResolved(s) ==
    /\ \E p \in {"go_to_start", "in_position", "set"} :
          /\ seqs[s].pc = "audio_" \o p
          /\ seqs' = [seqs EXCEPT ![s].pc = "delay_" \o p,
                                   ![s].wait = PhaseWait(seqs[s], p)]
    /\ UNCHANGED seqFrame

\* the wait of a cue phase ends
DelayFired(s) ==
    /\ \/ /\ seqs[s].pc = "delay_go_to_start"
          /\ seqs' = [seqs EXCEPT ![s] = EnterPhase(@, "in_position")]
          /\ UNCHANGED beeps
       \/ /\ seqs[s].pc = "delay_in_position"
          /\ seqs' = [seqs EXCEPT ![s] = EnterPhase(@, "set")]
          /\ UNCHANGED beeps
       \/ /\ seqs[s].pc = "delay_set"
          /\ seqs' = [seqs EXCEPT ![s] = EnterStart(@, now)]
          /\ beeps' = IF seqs[s].audio THEN beeps + 1 ELSE beeps
    /\ UNCHANGED << now, envVars, boundVars, appVars, markerVars, cameraVars,
                    pending, nseq, setStartCalls, setFinishCalls, recVars >>

\* the awaited playAudio('start_beep') resolves: animateScale, setTimeout
BeepResolved(s) ==
    /\ seqs[s].pc = "audio_start_beep"
    /\ seqs' = [seqs EXCEPT ![s].pc = "complete_timer",
                             ![s].ops = Append(@, "animateScale")]
    /\ UNCHANGED seqFrame

\* a completion callback that reads the clock when it runs
OnCompleteArg_now(q, t) == t

\* the argument of onComplete: the const startTime of the run, for a timer
\* that fires at clock reading t
OnCompleteArg(q, t) == q.startTime

\* the 500 ms timer fires: setPhase('completed'); onComplete(startTime)
CompleteTimer(s) ==
    /\ seqs[s].pc = "complete_timer"
    /\ seqs' = [seqs EXCEPT ![s].pc = "done", ![s].phase = "completed"]
    /\ HandleSequenceComplete(OnCompleteArg(seqs[s], now))
    /\ UNCHANGED << now, envVars, boundVars, appVars, cameraVars, pending,
                    nseq, beeps, setFinishCalls, recVars >>

\* ------------------------------------- camera library completions, session s
recFrame == << now, envVars, boundVars, appVars, markerVars, cameraVars,
               pending, nseq, seqs, callVars >>

\* handleRecordingFinished: the timing record, built from the markers, the
\* frameTimestamps ref and the frameCount and actualFps of the closure
TimingRecord(s, fc, fps) ==
    [session |-> s, startTime |-> startTime, finishTime |-> finishTime,
     frameTimestamps |-> frameTimestamps, frameCount |-> fc,
     measuredFps |-> fps]

\* the awaited camera.startRecording settles: setIsRecording(true), or the
\* catch that only logs (a recording that did not begin reports nothing)
StartRecordingSettled(s) ==
    /\ recs[s].start = "pending"
    /\ \/ /\ recs' = [recs EXCEPT ![s].start = "resolved"]
          /\ camIsRecording' = TRUE
       \/ /\ recs' = [recs EXCEPT ![s].start = "rejected", ![s].cb = "none"]
          /\ UNCHANGED camIsRecording
    /\ UNCHANGED << recFrame, timingData >>

\* the awaited camera.stopRecording settles: setIsRecording(false), or the
\* catch that only logs
StopRecordingSettled(s) ==
    /\ recs[s].stop = "pending"
    /\ \/ /\ recs' = [recs EXCEPT ![s].stop = "resolved"]
          /\ camIsRecording' = FALSE
       \/ /\ recs' = [recs EXCEPT ![s].stop = "rejected"]
          /\ UNCHANGED camIsRecording
    /\ UNCHANGED << recFrame, timingData >>

\* the library reports onRecordingFinished for a recording that had begun
\* and was stopped
RecordingFinished(s) ==
    /\ recs[s].start = "resolved"
    /\ recs[s].cb = "owed"
    /\ recs' = [recs EXCEPT ![s].cb = "finished"]
    /\ timingData' = TimingRecord(s, recs[s].fc, recs[s].fps)
    /\ UNCHANGED << recFrame, camIsRecording >>

\* the library reports onRecordingError: handleRecordingError
RecordingError(s) ==
    /\ recs[s].cb \in {"armed", "owed"}
    /\ recs' = [recs EXCEPT ![s].cb = "error"]
    /\ camIsRecording' = FALSE
    /\ UNCHANGED << recFrame, timingData >>

\* --------------------------------------------------------------------- clock
Tick ==
    /\ now < MaxTime
    /\ now' = now + 1
    /\ UNCHANGED << envVars, boundVars, appVars, markerVars, cameraVars,
                    pending, nseq, seqs, callVars, recVars >>

\* a run whose 500 ms timer is never set
SequenceStep_noTimer(s) ==
    \/ CountdownTimer(s)
    \/ AudioResolved(s)
    \/ DelayFired(s)
    \/ BeepResolved(s)

\* steps of the startSequence() run of overlay s
SequenceStep(s) ==
    \/ CountdownTimer(s)
    \/ AudioResolved(s)
    \/ DelayFired(s)
    \/ BeepResolved(s)
    \/ CompleteTimer(s)

\* completions and callbacks of the camera library for session s
RecorderStep(s) ==
    \/ StartRecordingSettled(s)
    \/ StopRecordingSettled(s)
    \/ RecordingFinished(s)
    \/ RecordingError(s)

\* the session, its sequences and the frame processor.  The recorder's calls
\* are issued, their completions are left to SpecRec: no action here reads
\* camIsRecording, recs or timingData.
Next ==
    \/ Tick
    \/ HandleStartSequence
    \/ HandleStopRecording
    \/ HandleSequenceCancelled
    \/ FrameWorklet
    \/ FramePush
    \/ \E s \in 1..MaxSessions : SequenceStep(s)

Spec == Init /\ [][Next]_vars

\* the session, its sequences and the recorder's completions and callbacks.
\* Frames and the clock are left to Spec: they reach the recorder's callbacks
\* only as the content of the frameTimestamps ref and of the markers.
NextRec ==
    \/ HandleStartSequence
    \/ HandleStopRecording
    \/ HandleSequenceCancelled
    \/ \E s \in 1..MaxSessions : SequenceStep(s)
    \/ \E s \in 1..MaxSessions : RecorderStep(s)

SpecRec == Init /\ [][NextRec]_vars

\* the session, the frame processor and the recorder's completions and
\* callbacks, in the time before the first timer of the sequence fires
NextCam ==
    \/ HandleStartSequence
    \/ HandleStopRecording
    \/ HandleSequenceCancelled
    \/ FrameWorklet
    \/ FramePush
    \/ \E s \in 1..MaxSessions : RecorderStep(s)

SpecCam == Init /\ [][NextCam]_vars

\* the configuration and a sequence that reads it; the calls to the storage
\* are issued, serving them is left to SpecStore
NextConfig ==
    \/ UpdateStartSequenceConfig
    \/ LoadConfigSettled
    \/ HandleStartSequence
    \/ \E s \in 1..MaxSessions : SequenceStep(s)

SpecConfig == InitConfig /\ [][NextConfig]_vars

\* the settings and their storage, over app runs
NextStore ==
    \/ UpdateStartSequenceConfig
    \/ UpdateVideoQuality
    \/ SetAutoSave
    \/ StorageServe
    \/ LoadConfigSettled
    \/ Relaunch

SpecStore == InitStore /\ [][NextStore]_vars

\* the waits of the runs of startSequence
NextDelays == StartSequenceDelays

SpecDelays == InitDelays /\ [][NextDelays]_vars

\* the choice of the camera format at start-up
NextFormat == InitializeApp

SpecFormat == InitFormat /\ [][NextFormat]_vars

\* the session and its sequences, every timer firing and every playAudio
\* call resolving
NextLive ==
    \/ HandleStartSequence
    \/ HandleStopRecording
    \/ HandleSequenceCancelled
    \/ \E s \in 1..MaxSessions : SequenceStep(s)

SpecLive ==
    /\ Init
    /\ [][NextLive]_vars
    /\ \A s \in 1..MaxSessions : WF_vars(SequenceStep(s))

\* initializeApp from its first line
NextPerm ==
    \/ RequestCameraPermissionSettled
    \/ RequestMicrophonePermissionSettled
    \/ InitializeApp

SpecPerm == InitPerm /\ [][NextPerm]_vars

\* Spec with handleStopRecording called in any state
NextCalls ==
    \/ Tick
    \/ HandleStartSequence
    \/ StopRecordingCall
    \/ HandleSequenceCancelled
    \/ FrameWorklet
    \/ FramePush
    \/ \E s \in 1..MaxSessions : SequenceStep(s)

SpecCalls == Init /\ [][NextCalls]_vars

\* ------------------------------------------------------------------ claims
NonDecreasing(ft) == \A i \in 1..(Len(ft) - 1) : ft[i] <= ft[i + 1]

\* C1: the recorder's begin call (camera.startRecording) is issued only when
\* the sequence is in its final 'start' phase: while the overlay's sequence is
\* in countdown, go_to_start, in_position or set, no begin call of the session
\* has been issued.
C1_BeginOnlyAtStartPhase ==
    (isSequenceActive /\ startCalls > 0) => seqs[nseq].phase \notin PrePhases

\* C2: within one session (from the accepted start request to its stop or
\* cancel) the 'start_beep' cue is issued at most once, also when a cancelled
\* earlier sequence is still pending.
C2_OneBeepPerSession ==
    recordingState = "recording" => beeps <= 1

\* C3: within one session TimingMarkers.setStartTime is invoked at most once.
C3_SetStartTimeOncePerSession ==
    recordingState = "recording" => setStartCalls <= 1

\* C4: a sequence cancelled in a phase before 'start' never calls onComplete,
\* so it never produces a start timestamp.
C4_CancelledNeverCompletes ==
    \A s \in 1..MaxSessions :
        seqs[s].cancelled = "pre" => seqs[s].pc # "done"

\* C5: no frame timestamp is appended before the start event: while the
\* session's sequence is in a pre-start phase and setStartTime has not been
\* called, frameTimestamps does not grow.
C5_NoFrameBeforeStart ==
    [][ (recordingState = "recording" /\ setStartCalls = 0
           /\ seqs[nseq].phase \in PrePhases)
        => Len(frameTimestamps') <= Len(frameTimestamps) ]_vars

\* C6: once the finish timestamp has been set by a stop request, nothing is
\* appended to frameTimestamps any more.
C6_NoFrameAfterFinish ==
    [][ finishTime # NULL => frameTimestamps' = frameTimestamps ]_vars

C8_FramesNonDecreasing ==
    NonDecreasing(frameTimestamps)

\* C9: once the start and the finish timestamp are both set, every element of
\* frameTimestamps lies in [startTime, finishTime].
C9_FramesWithinMarkers ==
    (startTime # NULL /\ finishTime # NULL) =>
        \A i \in 1..Len(frameTimestamps) :
            startTime <= frameTimestamps[i] /\ frameTimestamps[i] <= finishTime

\* C10: a cancel request issued when the overlay's sequence is in phase
\* 'start' or 'completed' changes neither recordingState nor the number of
\* stop calls made to the recorder.
C10_CancelAfterStartIgnored ==
    [][ (HandleSequenceCancelled /\ seqs[nseq].phase \in {"start", "completed"})
        => (recordingState' = recordingState /\ stopCalls' = stopCalls) ]_vars

\* the pc values a run has on issuing a playAudio call
CuePcs == {"audio_go_to_start", "audio_in_position", "audio_set",
           "audio_start_beep"}

\* C11: after a cancel request during go_to_start, in_position or set, the
\* cancelled sequence issues no further audio cue: no playAudio call of that
\* sequence happens after the cancel.
C11_NoCueAfterCancel ==
    [][ \A s \in 1..MaxSessions :
            seqs[s].cancelledIn \in {"go_to_start", "in_position", "set"}
            => ~(seqs'[s].pc # seqs[s].pc /\ seqs'[s].pc \in CuePcs) ]_vars

\* C12: for every session cancelled before the start event,
\* camera.stopRecording is issued exactly once, never zero times and never
\* twice, whatever the order of the pending startRecording completion and
\* the cancel.
C12_StopOnceOnCancel ==
    (recordingState = "idle" /\ nseq >= 1 /\ seqs[nseq].cancelled = "pre")
        => stopCalls = 1

\* C13: a session cancelled before the start event produces no timing record:
\* the record built by handleRecordingFinished is never emitted for it.
C13_NoRecordForCancelled ==
    timingData.session # 0 => seqs[timingData.session].cancelled # "pre"

\* no call to the recorder is awaited and no callback is outstanding
Quiescent(s) ==
    /\ recs[s].start # "pending"
    /\ recs[s].stop # "pending"
    /\ recs[s].cb \notin {"armed", "owed"}

\* the camera library has reported no failure for session s
NoLibraryFailure(s) ==
    /\ recs[s].start # "rejected"
    /\ recs[s].stop # "rejected"
    /\ recs[s].cb # "error"

\* C14: every stop request accepted while the session is recording moves
\* recordingState to 'finished', sets the finish timestamp, and leads to
\* stopRecording being issued and the timing record being emitted: once the
\* session is finished and nothing of the recorder is outstanding (the library
\* having reported no failure), stopRecording was issued and the record of the
\* session is there.
C14_StopLeadsToRecord ==
    recordingState = "finished" =>
        /\ finishTime # NULL
        /\ (Quiescent(nseq) /\ NoLibraryFailure(nseq))
              => (stopCalls = 1 /\ timingData.session = nseq)

\* C15: the finish timestamp is set at most once per session, and a stop
\* request received when recordingState is not 'recording' changes nothing:
\* recordingState, isSequenceActive and the finish timestamp stay as they
\* were.
C15_FinishOnceAndStopIgnored ==
    /\ [](setFinishCalls <= 1)
    /\ [][ (StopRecordingCall /\ recordingState # "recording")
           => UNCHANGED << recordingState, isSequenceActive, finishTime >> ]_vars

\* C15 witness: a stop request was accepted and set the finish timestamp;
\* every further stop request of the session is one received outside
\* 'recording'.
C15_Witness ==
    /\ recordingState = "finished"
    /\ setFinishCalls = 1
    /\ finishTime # NULL
    /\ presses < MaxPresses

\* C16: the finish timestamp is never set while the start timestamp is unset,
\* and whenever both are set finishTime >= startTime.
C16_FinishAfterStart ==
    finishTime # NULL => (startTime # NULL /\ finishTime >= startTime)

\* C17: the session state only moves forward: once recordingState is
\* 'finished' it never changes again, 'idle' is re-entered only through a
\* cancel, and a start request is accepted exactly when the Start control is
\* enabled (recordingState 'idle' and no sequence active).
C17_ForwardOnly ==
    /\ []((canStart /\ presses < MaxPresses) <=> ENABLED HandleStartSequence)
    /\ [](canStart => ~StartRejected(isSequenceActive, recordingState))
    /\ [][ /\ recordingState = "finished" => recordingState' = "finished"
           /\ (recordingState # "idle" /\ recordingState' = "idle")
                 => HandleSequenceCancelled
           /\ (recordingState # "recording" /\ recordingState' = "recording")
                 => (recordingState = "idle" /\ ~isSequenceActive) ]_vars

\* C17 witness: a session that went from idle through recording, with its
\* sequence completed, to finished; a press is left, and the Start button is
\* disabled.
C17_Witness ==
    /\ recordingState = "finished"
    /\ seqs[nseq].pc = "done"
    /\ presses < MaxPresses
    /\ ~canStart

\* a comes before b among the calls of the start step
Before(ops, a, b) ==
    \E i, j \in 1..Len(ops) : i < j /\ ops[i] = a /\ ops[j] = b

\* C18: in the start step the recorder's begin command, the beep command and
\* the clock read happen in that order: the start timestamp is a clock
\* reading taken after the beep command was issued.
C18_BeginBeepClock ==
    \A s \in 1..MaxSessions :
        (seqs[s].audio /\ seqs[s].ops # << >>) =>
            /\ Before(seqs[s].ops, "begin", "beep")
            /\ Before(seqs[s].ops, "beep", "clock")

DisplayOps == {"setPhase", "setPhaseText", "animateScale"}

\* C19: in the start step no display update (phase or phase-text change,
\* animation) is performed before the beep command and the clock read; display
\* updates only follow them.
C19_DisplayAfterStart ==
    \A s \in 1..MaxSessions :
        \A i, j \in 1..Len(seqs[s].ops) :
            (seqs[s].ops[i] \in DisplayOps
               /\ seqs[s].ops[j] \in {"beep", "clock"}) => j < i

\* C20: audio playback never gates the sequence: a run that waits for a
\* playAudio call can advance without that call completing.
C20_AudioNeverGates ==
    \A s \in 1..MaxSessions :
        seqs[s].pc \in CuePcs =>
            ENABLED (CountdownTimer(s) \/ DelayFired(s) \/ CompleteTimer(s))

\* C21: no audio cue is played before the recorder is ready: a playAudio
\* call of a session happens only after the session's pending
\* camera.startRecording call has completed successfully.
C21_NoCueBeforeRecorderReady ==
    [][ \A s \in 1..MaxSessions :
            (seqs'[s].pc # seqs[s].pc /\ seqs'[s].pc \in CuePcs)
            => recs[s].start = "resolved" ]_vars

\* the cues a run has issued when it is in phase p
CuesUpTo(p) ==
    CASE p = "countdown"   -> << >>
      [] p = "go_to_start" -> << "go_to_start" >>
      [] p = "in_position" -> << "go_to_start", "in_position" >>
      [] p = "set"         -> << "go_to_start", "in_position", "set" >>
      [] OTHER             -> << "go_to_start", "in_position", "set",
                                 "start_beep" >>

\* C22: an uncancelled sequence with audio enabled issues exactly the cues
\* go_to_start, in_position, set, start_beep, in that order and each once,
\* each at the entry of its phase; with audio disabled it issues none.
C22_CuesInOrder ==
    \A s \in 1..MaxSessions :
        (seqs[s].pc # "unmounted" /\ seqs[s].cancelled = "no") =>
            seqs[s].cues = IF seqs[s].audio THEN CuesUpTo(seqs[s].phase)
                                            ELSE << >>

\* C22 witness: an uncancelled run with audio has completed, its four cues
\* issued.
C22_Witness ==
    \E s \in 1..MaxSessions :
        /\ seqs[s].pc = "done"
        /\ seqs[s].cancelled = "no"
        /\ seqs[s].audio
        /\ Len(seqs[s].cues) = 4

\* the recorder of session s failed to start, or reported a recording error
RecorderFailed(s) ==
    \/ startCalls = 0
    \/ recs[s].start = "rejected"
    \/ recs[s].cb = "error"

\* C28: when the recorder fails to start (camera.startRecording rejects, or
\* the camera or device is missing) or reports a recording error, the session
\* does not stay in the recording state, and no start timestamp is recorded
\* for it.
C28_FailedRecorderEndsSession ==
    /\ []((nseq >= 1 /\ RecorderFailed(nseq)) => recordingState # "recording")
    /\ [][ (nseq >= 1 /\ RecorderFailed(nseq) /\ nseq' = nseq)
           => setStartCalls' = setStartCalls ]_vars

\* C27: the measured frame rate recorded for a session (actualFps, exported
\* as measuredFps of the timing record) is always within [1, 240].
C27_MeasuredFpsInRange ==
    timingData.session # 0 =>
        (timingData.measuredFps >= 1 /\ timingData.measuredFps <= 240)

\* C29: the timing record emitted when a recording finishes has a frameCount
\* equal to the number of frame timestamps it contains, and a measuredFps
\* equal to the last measured value of that session.
C29_RecordCountsFrames ==
    [][ \A s \in 1..MaxSessions :
            RecordingFinished(s) =>
                /\ timingData'.frameCount = Len(timingData'.frameTimestamps)
                /\ timingData'.measuredFps = actualFps ]_vars

Is1080p120(f) ==
    f.videoWidth = 1920 /\ f.videoHeight = 1080 /\ f.maxFps >= 120
Is720p240(f) ==
    f.videoWidth = 1280 /\ f.videoHeight = 720 /\ f.maxFps >= 240

\* the formats of the device
FormatsOf(dev) == {dev.formats[i] : i \in 1..Len(dev.formats)}

\* C30: for a 240 fps target findBestFormat follows the documented
\* preference order: 1080p at 240 fps when the device has it, else 1080p at
\* 120 fps when 240 fps is unavailable, else 720p at 240 fps when 1080p is
\* unavailable.
C30_FormatPreference ==
    (appInit = "done" /\ targetFps = 240 /\ device.hasFormats) =>
        IF \E f \in FormatsOf(device) : Is1080p240(f)
        THEN Is1080p240(format)
        ELSE IF \E f \in FormatsOf(device) : Is1080p120(f)
        THEN Is1080p120(format)
        ELSE IF \E f \in FormatsOf(device) : Is720p240(f)
        THEN Is720p240(format)
        ELSE TRUE

\* the time a run waits in delay() calls before the start phase
TotalWait(d) ==
    d.countdown[1] + d.countdown[2] + d.countdown[3]
        + d.goToStart + d.inPosition + d.set

\* C23: the total time waited before the start phase equals
\* goToStartDuration plus the drawn in_position delay plus the drawn set
\* delay, with no other wait added by the sequence.
C23_TotalWait ==
    \A i \in 1..Len(delayLog) :
        LET d == delayLog[i]
        IN  TotalWait(d) =
                d.cfg.goToStartDuration * 1000 + d.inPosition + d.set

\* C24: for every configured range with min <= max, the in_position wait
\* lies in [inPositionMin, inPositionMax] seconds and the set wait lies in
\* [setMin, setMax] seconds, for every run's own draw.
C24_WaitsInRange ==
    \A i \in 1..Len(delayLog) :
        LET d == delayLog[i]
            c == d.cfg
        IN  /\ c.inPositionMin <= c.inPositionMax =>
                (c.inPositionMin * 1000 <= d.inPosition
                   /\ d.inPosition <= c.inPositionMax * 1000)
            /\ c.setMin <= c.setMax =>
                (c.setMin * 1000 <= d.set /\ d.set <= c.setMax * 1000)

\* C24 witness: two runs under one configuration with proper ranges, the
\* second with draws of its own.
C24_Witness ==
    /\ Len(delayLog) = 2
    /\ startSequenceConfig.inPositionMin < startSequenceConfig.inPositionMax
    /\ startSequenceConfig.setMin < startSequenceConfig.setMax
    /\ delayLog[1].inPosition # delayLog[2].inPosition
    /\ delayLog[1].set # delayLog[2].set
    /\ delayLog[2].inPosition > startSequenceConfig.inPositionMin * 1000

\* every duration is >= 0 and each range has min <= max
ValidConfig(c) ==
    /\ c.goToStartDuration >= 0
    /\ c.inPositionMin >= 0 /\ c.inPositionMax >= 0
    /\ c.setMin >= 0 /\ c.setMax >= 0
    /\ c.inPositionMin <= c.inPositionMax
    /\ c.setMin <= c.setMax

\* C25: after any sequence of updateStartSequenceConfig and loadConfig
\* operations every duration of the start-sequence configuration is >= 0,
\* inPositionMin <= inPositionMax and setMin <= setMax.
C25_ConfigValid ==
    ValidConfig(startSequenceConfig)

\* a run that has been started
Started(s) == seqs[s].pc # "unmounted"

\* C26: the configuration used by a running sequence is the one in force
\* when the sequence started: an updateStartSequenceConfig or a late
\* loadConfig completion changes neither the waits of the remaining phases
\* nor whether audio cues are played.
C26_ConfigFixedAtStart ==
    /\ [](\A s \in 1..MaxSessions : Started(s) =>
            LET c == seqs[s].cfg
                w == seqs[s].wait
            IN  /\ seqs[s].pc = "delay_go_to_start" =>
                    w = << c.goToStartDuration * 1000,
                           c.goToStartDuration * 1000 >>
                /\ seqs[s].pc = "delay_in_position" =>
                    w = << c.inPositionMin * 1000, c.inPositionMax * 1000 >>
                /\ seqs[s].pc = "delay_set" =>
                    w = << c.setMin * 1000, c.setMax * 1000 >>
                /\ seqs[s].cues = IF c.audioEnabled
                                  THEN CuesUpTo(seqs[s].phase) ELSE << >>)
    /\ [][ \A s \in 1..MaxSessions :
             /\ Started(s) => seqs'[s].cfg = seqs[s].cfg
             /\ (~Started(s) /\ seqs'[s].pc # "unmounted")
                   => seqs'[s].cfg = startSequenceConfig ]_vars

\* C26 witness: a run waits in its set phase under the configuration it was
\* started with, after the provider's configuration has changed in the set
\* range and in audioEnabled.
C26_Witness ==
    \E s \in 1..MaxSessions :
        /\ seqs[s].pc = "delay_set"
        /\ seqs[s].cfg.setMin # startSequenceConfig.setMin
        /\ seqs[s].cfg.audioEnabled # startSequenceConfig.audioEnabled

\* C31: settings are persistent: when an app run has updated the settings
\* and every save has completed, the next app run's loadConfig restores
\* exactly those values of startSequenceConfig, videoQuality and autoSave.
C31_SettingsPersist ==
    (lastRun # << >> /\ configLoad = "done" /\ configOps = launched.ops)
        => Settings = lastRun[1]

\* C32: the save of the defaults that runs alongside loadConfig on mount
\* never destroys a stored configuration: in an app run that found an item
\* and made no update, once the load and every save have completed the item
\* is the one found, and the settings in memory are the ones it holds.
C32_MountSaveKeepsStored ==
    (launched.item # << >> /\ configOps = launched.ops /\ AllSaved)
        => /\ storage = launched.item
           /\ << Stringify(startSequenceConfig, videoQuality, autoSave) >>
                 = launched.item

\* a run of startSequence that has begun and not yet called onComplete
InProgress(s) == seqs[s].pc \notin {"unmounted", "done"}

\* C33: at most one start sequence is in progress at any time: after a
\* cancel followed by a new start request no earlier run of startSequence
\* is still advancing phases, playing cues or able to call onComplete.
C33_OneSequenceAtATime ==
    \A s, t \in 1..MaxSessions :
        (InProgress(s) /\ InProgress(t)) => s = t

\* C34: the value passed to setStartTime is exactly the clock reading taken
\* on entry to the 'start' phase: the run keeps that reading unchanged
\* through the beep await and the 500 ms delay, and the completion callback
\* passes it on, whatever the clock says when the callback runs.
C34_StartTimeIsEntryReading ==
    [][ \A s \in 1..MaxSessions :
          /\ (seqs[s].phase # "start" /\ seqs'[s].phase = "start")
                => seqs'[s].startTime = now
          /\ (seqs[s].phase = "start")
                => seqs'[s].startTime = seqs[s].startTime
          /\ (CompleteTimer(s) /\ startTime = NULL)
                => startTime' = seqs[s].startTime ]_vars

\* C34 witness: the completion callback has run at a clock reading later
\* than the one taken on entry to the start phase, and the marker holds the
\* earlier one.
C34_Witness ==
    \E s \in 1..MaxSessions :
        /\ seqs[s].pc = "done"
        /\ setStartCalls = 1
        /\ startTime = seqs[s].startTime
        /\ startTime < now

\* the phase that follows p
NextPhase(p) ==
    CASE p = "countdown"   -> "go_to_start"
      [] p = "go_to_start" -> "in_position"
      [] p = "in_position" -> "set"
      [] p = "set"         -> "start"
      [] p = "start"       -> "completed"
      [] OTHER             -> "none"

\* C35: when every timer fires and every playAudio call resolves, a run
\* passes through countdown, go_to_start, in_position, set, start, completed
\* in that order, skipping and revisiting none, and eventually calls
\* onComplete, exactly once.
C35_RunsToCompletion ==
    /\ [][ \A s \in 1..MaxSessions :
             /\ (Started(s) /\ seqs'[s].phase # seqs[s].phase)
                   => seqs'[s].phase = NextPhase(seqs[s].phase)
             /\ (seqs[s].pc # "done" /\ seqs'[s].pc = "done")
                   => (seqs[s].phase = "start" /\ CompleteTimer(s))
             /\ seqs[s].pc = "done"
                   => (seqs'[s].pc = "done" /\ seqs'[s].phase = "completed")
           ]_vars
    /\ \A s \in 1..MaxSessions :
          (Started(s) /\ seqs[s].cancelled = "no")
              ~> (seqs[s].pc = "done" \/ seqs[s].cancelled # "no")

\* C35 witness: an uncancelled run has called onComplete, in phase
\* completed.
C35_Witness ==
    \E s \in 1..MaxSessions :
        /\ seqs[s].pc = "done"
        /\ seqs[s].phase = "completed"
        /\ seqs[s].cancelled = "no"
        /\ setStartCalls = 1

\* C36: a cancel request during any pre-start phase is always honoured, also
\* while an audio cue or a phase wait is pending: the Cancel button of the
\* mounted overlay can be pressed, the press sets isSequenceActive to false
\* and recordingState to 'idle', and the Start button is enabled after it.
C36_CancelHonoured ==
    /\ []((isSequenceActive /\ presses < MaxPresses)
             => ENABLED HandleSequenceCancelled)
    /\ [][ (HandleSequenceCancelled /\ seqs[nseq].phase \in PrePhases)
           => /\ isSequenceActive' = FALSE
              /\ recordingState' = "idle"
              /\ ~StartRejected(isSequenceActive', recordingState') ]_vars

\* C36 witness: a sequence was cancelled while its set cue was pending, and
\* a new start request has been accepted after it.
C36_Witness ==
    /\ nseq = 2
    /\ seqs[1].cancelledIn = "set"
    /\ seqs[1].cues = << "go_to_start", "in_position", "set" >>
    /\ recordingState = "recording"

\* C37: the camera context flag isRecording agrees with the session once
\* pending calls settle: whenever recordingState is not 'recording' and no
\* startRecording or stopRecording call is pending (none of them having
\* failed), camera.isRecording is false.
C37_IsRecordingAgrees ==
    (/\ recordingState # "recording"
     /\ \A s \in 1..MaxSessions :
           /\ recs[s].start # "pending"
           /\ recs[s].stop # "pending"
           /\ NoLibraryFailure(s))
        => ~camIsRecording

\* C38: isSequenceActive is true only while a countdown sequence is in
\* progress: it is true once a start request is accepted and false again
\* once the sequence has completed, been cancelled, or the recording has
\* been stopped.
C38_ActiveOnlyDuringSequence ==
    /\ isSequenceActive => (nseq >= 1 /\ InProgress(nseq))
    /\ recordingState # "recording" => ~isSequenceActive

\* the formats of the device that pass the filter for fps
Qualifying(dev, fps) == {f \in FormatsOf(dev) : Qualifies(f, fps)}

C40_ActiveOnlyWithPermission ==
    /\ [](hasPermission <=> appInit \in {"pending", "done"})
    /\ []((isActive \/ format # NoFormat) => appInit = "done")
    /\ [](hasPermission => (/\ cameraPermission = "authorized"
                            /\ microphonePermission = "authorized"))
    /\ [](appInit = "denied" => (~hasPermission /\ ~isActive))
    /\ [][ appInit = "denied" => UNCHANGED << appInit, isActive, format >> ]_vars

\* C40 witness: both permissions were authorized and initializeApp has
\* activated the camera with a format.
C40_Witness ==
    /\ appInit = "done"
    /\ isActive
    /\ hasPermission
    /\ format # NoFormat
====
